---- MODULE Spec2Model ----
(***************************************************************************)
(* Short-range block synchronisation of the downloader:                    *)
(*   doShortRangeSync  = prerequisite check, hash-chain phase (getHashChain,*)
(*   blockHashResults, countHashMaxVote), block-fetch phase                 *)
(*   (getBlocksByHashes, getBlocksByHashManager) and insertion.             *)
(* Hashes are small positive integers, emptyHash is 0; a block is modelled  *)
(* by the hash it carries; stream ids are 1..NumStreamIDs and the zero      *)
(* value of StreamID ("") is NoStream.                                      *)
(***************************************************************************)
EXTENDS Integers, Sequences, FiniteSets, Bags, TLC

\* ---------------------------------------------------------------- bounds
Concurrency == 2
NumStreamIDs == 3
numBlockHashesPerRequest == 2
MaxTarget == 7
MaxWhitelist == 2
MaxChainLen == 20
MaxManagerWhitelist == 3
MaxFrames == 2
MaxRemoveLen == 3
\* the maximum message size, 20 * 1024 * 1024 in the program, scaled down
maxMsgBytes == 2

\* ------------------------------------------------------ program constants
emptyHash == 0
NoStream == 0
numBlocksByHashesLowerCap == 6
numBlocksByHashesUpperCap == 10
sizeBytes == 4

StreamIDs == 1..NumStreamIDs
\* two hash values besides emptyHash: peers agree or disagree at a height
HashValues == {1, 2}
Positions == 1..numBlockHashesPerRequest

VARIABLES
  \* Downloader.doShortRangeSync and the sync protocol adapter
  pc, ret, parentCanceled, numStreams, curBN, removed, evicted,
  syncing, targetBN, events,
  \* srHelper.getHashChain / blockHashResults
  hwg, results, whitelist, hashChain, wlTrace, sts,
  \* srHelper.getBlocksByHashes / getBlocksByHashManager
  hashes, pendings, mresults, wlArr, wlLen, workers, gErr,
  childCanceled, blocks, dispatched,
  \* countHashMaxVote applied to drawn inputs
  tally,
  \* removeStreamID applied to drawn inputs
  rmCall,
  \* BaseStream: WriteBytes and ReadBytes over one stream
  frames, wres, wire, rbuf, rd, recv

cycleVars == <<pc, ret, parentCanceled, numStreams, curBN, removed, evicted,
               syncing, targetBN, events>>
hashVars == <<hwg, results, whitelist, hashChain, wlTrace, sts>>
fetchVars == <<hashes, pendings, mresults, wlArr, wlLen, workers,
               gErr, childCanceled, blocks, dispatched>>
frameVars == <<frames, wres, wire, rbuf, rd, recv>>
auxVars == <<tally, rmCall, frameVars>>
vars == <<cycleVars, hashVars, fetchVars, auxVars>>

\* ------------------------------------------------------------- helpers
Range(s) == {s[i] : i \in DOMAIN s}

\* every order in which a Go map with key set S may be iterated
Perms(S) ==
  {f \in [1..Cardinality(S) -> S] : \A i, j \in DOMAIN f : i # j => f[i] # f[j]}

EmptyMap == [x \in {} |-> 0]

NoErr == "nil"
ErrPrerequisite == "not enough streams"
ErrCanceled == "context canceled"
ErrEmptyWhitelist == "empty white list"
ErrSanityNil == "SANITY: nil block found"
ErrSigVerify == "sigVerifyError"
ErrInsertOther == "insert error"

\* ------------------------------------------------- Hash-vote tally (4.A)
\* The first loop of countHashMaxVote over the map m in iteration order
\* `order`: voteM counts per hash, res is the first hash to reach the running
\* maximum maxCnt.
\* mutant: the running maximum is not compared, the last counted hash wins
RECURSIVE voteLoopLast(_, _, _, _, _, _)
voteLoopLast(m, wl, order, voteM, res, maxCnt) ==
  IF order = <<>> THEN res
  ELSE IF wl # {} /\ Head(order) \notin wl
    THEN voteLoopLast(m, wl, Tail(order), voteM, res, maxCnt)
    ELSE voteLoopLast(m, wl, Tail(order), voteM, m[Head(order)], maxCnt)

RECURSIVE voteLoop(_, _, _, _, _, _)
voteLoop(m, wl, order, voteM, res, maxCnt) ==
  IF order = <<>> THEN res
  ELSE LET st == Head(order)
           h == m[st]
           cnt == voteM[h] + 1
       IN IF wl # {} /\ st \notin wl
            THEN voteLoop(m, wl, Tail(order), voteM, res, maxCnt)
            ELSE voteLoop(m, wl, Tail(order), [voteM EXCEPT ![h] = cnt],
                          IF cnt > maxCnt THEN h ELSE res,
                          IF cnt > maxCnt THEN cnt ELSE maxCnt)

\* mutant: the second loop forgets the whitelist filter
countHashMaxVoteNoFilter(m, wl, order) ==
  LET res == voteLoop(m, wl, order, [h \in Range(m) |-> 0], emptyHash, 0)
  IN [hash |-> res, nextWl |-> {st \in DOMAIN m : m[st] = res}]

\* mutant: votes of streams outside the whitelist are counted too
countHashMaxVoteCountAll(m, wl, order) ==
  LET res == voteLoop(m, {}, order, [h \in Range(m) |-> 0], emptyHash, 0)
  IN [hash |-> res,
      nextWl |-> {st \in DOMAIN m : m[st] = res /\ (wl # {} => st \in wl)}]

countHashMaxVote(m, wl, order) ==
  LET res == voteLoop(m, wl, order, [h \in Range(m) |-> 0], emptyHash, 0)
  IN [hash |-> res,
      nextWl |-> {st \in DOMAIN m : m[st] = res /\ (wl # {} => st \in wl)}]

\* ------------------------------------------ Hash-chain aggregator (4.B)
newBlockHashResults == [i \in Positions |-> EmptyMap]

\* index of the first emptyHash element of a listing, Len + 1 when none
FirstEmpty(l) ==
  IF \E i \in DOMAIN l : l[i] = emptyHash
    THEN CHOOSE i \in DOMAIN l : l[i] = emptyHash /\ \A j \in 1..(i - 1) : l[j] # emptyHash
    ELSE Len(l) + 1

\* mutant: the empty hash is skipped instead of ending the listing
addResultSkipEmpty(res, hs, stid) ==
  [i \in DOMAIN res |->
     IF i <= Len(hs) /\ hs[i] # emptyHash THEN (stid :> hs[i]) @@ res[i] ELSE res[i]]

addResult(res, hs, stid) ==
  [i \in DOMAIN res |->
     IF i < FirstEmpty(hs) THEN (stid :> hs[i]) @@ res[i] ELSE res[i]]

\* what GetBlockHashes may deliver: a listing of the requested length, or one
\* of another length
Listings == [Positions -> HashValues \cup {emptyHash}]
WrongLengthListings ==
  {[i \in 1..(numBlockHashesPerRequest - 1) |-> 1],
   [i \in 1..(numBlockHashesPerRequest + 1) |-> 1]}

\* mutant: one stream fewer than Concurrency is let through
checkPrerequisitesOffByOne(n) == IF n + 1 < Concurrency THEN ErrPrerequisite ELSE NoErr

checkPrerequisites(n) == IF n < Concurrency THEN ErrPrerequisite ELSE NoErr

\* doShortRangeSync up to the prerequisite check
CheckPrerequisites ==
  /\ pc = "prereq"
  /\ IF checkPrerequisites(numStreams) # NoErr
       THEN pc' = "done" /\ ret' = [n |-> 0, err |-> ErrPrerequisite]
       ELSE pc' = "hashWorkers" /\ ret' = ret
  /\ UNCHANGED <<parentCanceled, numStreams, curBN, removed, evicted,
                 syncing, targetBN, events>>
  /\ UNCHANGED <<hashVars, fetchVars, auxVars>>

\* mutant: a listing of the wrong length evicts the stream and is recorded
\* all the same
HashWorkerKeepsWrongLength ==
  /\ pc = "hashWorkers"
  /\ hwg > 0
  /\ hwg' = hwg - 1
  /\ \/ UNCHANGED <<results, removed>>
     \/ \E stid \in StreamIDs, hs \in Listings \cup WrongLengthListings :
          IF Len(hs) # numBlockHashesPerRequest
            THEN removed' = removed \cup {stid} /\ results' = addResult(results, hs, stid)
            ELSE results' = addResult(results, hs, stid) /\ UNCHANGED removed
  /\ UNCHANGED <<pc, ret, parentCanceled, numStreams, curBN, evicted,
                 syncing, targetBN, events>>
  /\ UNCHANGED <<whitelist, hashChain, wlTrace, sts>>
  /\ UNCHANGED <<fetchVars, auxVars>>

\* one worker of getHashChain: doGetBlockHashesRequest, then addResult, then
\* wg.Done. The request fails, or delivers a listing from the stream the
\* adapter chose.
HashWorker ==
  /\ pc = "hashWorkers"
  /\ hwg > 0
  /\ hwg' = hwg - 1
  /\ \/ UNCHANGED <<results, removed>>
     \/ \E stid \in StreamIDs, hs \in Listings \cup WrongLengthListings :
          IF Len(hs) # numBlockHashesPerRequest
            THEN removed' = removed \cup {stid} /\ UNCHANGED results
            ELSE results' = addResult(results, hs, stid) /\ UNCHANGED removed
  /\ UNCHANGED <<pc, ret, parentCanceled, numStreams, curBN, evicted,
                 syncing, targetBN, events>>
  /\ UNCHANGED <<whitelist, hashChain, wlTrace, sts>>
  /\ UNCHANGED <<fetchVars, auxVars>>

\* getHashChain: select on sh.ctx.Done() after wg.Wait
hashChainCanceled(canceled) == canceled

\* getHashChain after wg.Wait: the cancellation check
GetHashChainWait ==
  /\ pc = "hashWorkers"
  /\ hwg = 0
  /\ IF hashChainCanceled(parentCanceled)
       THEN pc' = "done" /\ ret' = [n |-> 0, err |-> ErrCanceled]
       ELSE pc' = "compute" /\ ret' = ret
  /\ UNCHANGED <<parentCanceled, numStreams, curBN, removed, evicted,
                 syncing, targetBN, events>>
  /\ UNCHANGED <<hashVars, fetchVars, auxVars>>

\* one iteration of the loop of computeLongestHashChain; leaving the loop
\* builds the returned whitelist slice in map iteration order
ComputeStep ==
  /\ pc = "compute"
  /\ LET i == Len(hashChain) + 1 IN
     \E order \in Perms(DOMAIN results[i]) :
       LET r == countHashMaxVote(results[i], whitelist, order) IN
         IF r.hash = emptyHash
           THEN /\ pc' = "computed"
                /\ \E o \in Perms(whitelist) : sts' = o
                /\ UNCHANGED <<hashChain, whitelist, wlTrace>>
           ELSE /\ hashChain' = Append(hashChain, r.hash)
                /\ whitelist' = r.nextWl
                /\ wlTrace' = Append(wlTrace, r.nextWl)
                /\ IF i = numBlockHashesPerRequest
                     THEN pc' = "computed" /\ \E o \in Perms(r.nextWl) : sts' = o
                     ELSE pc' = pc /\ sts' = sts
  /\ UNCHANGED <<ret, parentCanceled, numStreams, curBN, removed, evicted,
                 syncing, targetBN, events>>
  /\ UNCHANGED <<hwg, results>>
  /\ UNCHANGED <<fetchVars, auxVars>>

\* ---------------------------------------------- Block-fetch manager (4.C)
\* A block is the hash it carries, or nil.
Block(h) == [nil |-> FALSE, hash |-> h]
NilBlock == [nil |-> TRUE, hash |-> emptyHash]
NoResult == [block |-> NilBlock, stid |-> NoStream]

\* mutant: the quotient is truncated instead of rounded up
divideFloor(x, y) == x \div y

divideCeil(x, y) == (x + y - 1) \div y

numBlocksPerRequest(nHashes, nWhitelist) ==
  LET val == divideCeil(nHashes, nWhitelist) IN
    IF val < numBlocksByHashesLowerCap THEN numBlocksByHashesLowerCap
    ELSE IF val > numBlocksByHashesUpperCap THEN numBlocksByHashesUpperCap
    ELSE val

FirstN(s, n) == IF Len(s) <= n THEN s ELSE SubSeq(s, 1, n)

\* getNextHashes with a non-empty whitelist: the first num hashes, in target
\* order, that are neither pending nor done. Nothing is added to pendings.
getNextHashes(hs, pend, res, nWhitelist) ==
  FirstN(SelectSeq(hs, LAMBDA h : h \notin pend /\ h \notin DOMAIN res),
         numBlocksPerRequest(Len(hs), nWhitelist))

\* mutant: every hash of the batch is given the first block of the payload
RECURSIVE mAddResultFirstBlock(_, _, _, _)
mAddResultFirstBlock(res, hs, bs, stid) ==
  IF hs = <<>> THEN res
  ELSE mAddResultFirstBlock((Head(hs) :> [block |-> Head(bs), stid |-> stid]) @@ res,
                            Tail(hs), bs, stid)

\* mutant: the records are stored under the zero hash
RECURSIVE mAddResultZeroKey(_, _, _, _)
mAddResultZeroKey(res, hs, bs, stid) ==
  IF hs = <<>> THEN res
  ELSE mAddResultZeroKey((emptyHash :> [block |-> Head(bs), stid |-> stid]) @@ res,
                         Tail(hs), Tail(bs), stid)

\* m.addResult: results[hashes[i]] = {blocks[i], stid}, in order
RECURSIVE mAddResult(_, _, _, _)
mAddResult(res, hs, bs, stid) ==
  IF hs = <<>> THEN res
  ELSE mAddResult((Head(hs) :> [block |-> Head(bs), stid |-> stid]) @@ res,
                  Tail(hs), Tail(bs), stid)

\* mutant: the loop is not restarted, only the first occurrence is removed
removeStreamIDFirstOnly(arr, len, target) ==
  IF \E i \in 1..len : arr[i] = target
    THEN LET i == CHOOSE k \in 1..len : arr[k] = target /\ \A j \in 1..(k - 1) : arr[j] # target
             shifted == [k \in DOMAIN arr |-> IF k >= i /\ k < len THEN arr[k + 1] ELSE arr[k]]
         IN [arr |-> shifted, len |-> len - 1]
    ELSE [arr |-> arr, len |-> len]

\* removeStreamID on the slice arr[1..len] that shares its backing array with
\* the caller's whitelist: append(wl[:i], wl[i+1:]...) shifts the tail down in
\* place and leaves the last cell as it was; the loop restarts after a removal
RECURSIVE removeStreamID(_, _, _)
removeStreamID(arr, len, target) ==
  IF \E i \in 1..len : arr[i] = target
    THEN LET i == CHOOSE k \in 1..len : arr[k] = target /\ \A j \in 1..(k - 1) : arr[j] # target
             shifted == [k \in DOMAIN arr |-> IF k >= i /\ k < len THEN arr[k + 1] ELSE arr[k]]
         IN removeStreamID(shifted, len - 1, target)
    ELSE [arr |-> arr, len |-> len]

\* getResults: the blocks in target order, or the sanity error
getResults(hs, res) ==
  LET at(h) == IF h \in DOMAIN res THEN res[h] ELSE NoResult IN
    IF \E i \in DOMAIN hs : at(hs[i]).block.nil
      THEN [blocks |-> <<>>, err |-> ErrSanityNil]
      ELSE [blocks |-> [i \in DOMAIN hs |-> at(hs[i]).block], err |-> NoErr]

isDone(hs, res) == Cardinality(DOMAIN res) = Len(hs)

\* mutant: the hashes of the delivered blocks are not compared
checkGetBlockByHashesResultNoHash(bs, hs) ==
  /\ Len(bs) = Len(hs)
  /\ \A i \in DOMAIN bs : ~bs[i].nil

checkGetBlockByHashesResult(bs, hs) ==
  /\ Len(bs) = Len(hs)
  /\ \A i \in DOMAIN bs : ~bs[i].nil /\ bs[i].hash = hs[i]

\* what a peer may deliver for a batch: the requested blocks, or a payload
\* with a block missing, a nil block, or a block of another hash
WrongHash(h) == IF h = 1 THEN 2 ELSE 1
GoodBlocks(hs) == [i \in DOMAIN hs |-> Block(hs[i])]
BlockResponses(hs) ==
  {GoodBlocks(hs), SubSeq(GoodBlocks(hs), 1, Len(hs) - 1)}
    \cup {[GoodBlocks(hs) EXCEPT ![i] = NilBlock] : i \in {1, Len(hs)}}
    \cup {[GoodBlocks(hs) EXCEPT ![i] = Block(WrongHash(hs[i]))] : i \in {1, Len(hs)}}

\* The fetch workers are goroutines of one closure: the bag of their local
\* states (position in the loop, batch and whitelist snapshot in hand).
Worker(at, hs, wl) == [pc |-> at, batch |-> hs, snap |-> wl]
Idle(at) == Worker(at, <<>>, <<>>)
Become(r, r2) == workers' = (workers (-) SetToBag({r})) (+) SetToBag({r2})
At(at) == {r \in BagToSet(workers) : r.pc = at}

ctxDone == childCanceled \/ parentCanceled

\* mutant: the status is cleared but no download-finished event is sent
finishSyncingNoEvent == syncing' = FALSE /\ UNCHANGED events

finishSyncing == syncing' = FALSE /\ events' = Append(events, "finished")

\* mutant: no short circuit for an empty hash chain
AfterHashChainNoShortCircuit ==
  /\ pc = "computed"
  /\ pc' = "fetch"
  /\ ret' = ret
  /\ syncing' = TRUE
  /\ events' = Append(events, "started")
  /\ targetBN' = curBN + Len(hashChain) - 1
  /\ hashes' = hashChain
  /\ pendings' = {}
  /\ mresults' = EmptyMap
  /\ wlArr' = sts
  /\ wlLen' = Len(sts)
  /\ workers' = (Idle("isDone") :> Concurrency)
  /\ UNCHANGED <<gErr, childCanceled, blocks, dispatched>>
  /\ results' = newBlockHashResults
  /\ whitelist' = {}
  /\ wlTrace' = <<>>
  /\ UNCHANGED <<hwg, hashChain, sts>>
  /\ UNCHANGED <<parentCanceled, numStreams, curBN, removed, evicted, auxVars>>

\* doShortRangeSync between getHashChain and the fetch workers: the short
\* circuit, startSyncing, setTargetBN, newGetBlocksByHashManager (which keeps
\* the caller's whitelist slice) and the start of the workers
AfterHashChain ==
  /\ pc = "computed"
  /\ IF Len(hashChain) = 0
       THEN /\ pc' = "done"
            /\ ret' = [n |-> 0, err |-> NoErr]
            /\ UNCHANGED <<syncing, targetBN, events, fetchVars>>
       ELSE /\ pc' = "fetch"
            /\ ret' = ret
            /\ syncing' = TRUE
            /\ events' = Append(events, "started")
            /\ targetBN' = curBN + Len(hashChain) - 1
            /\ hashes' = hashChain
            /\ pendings' = {}
            /\ mresults' = EmptyMap
            /\ wlArr' = sts
            /\ wlLen' = Len(sts)
            /\ workers' = (Idle("isDone") :> Concurrency)
            /\ UNCHANGED <<gErr, childCanceled, blocks, dispatched>>
  /\ results' = newBlockHashResults
  /\ whitelist' = {}
  /\ wlTrace' = <<>>
  /\ UNCHANGED <<hwg, hashChain, sts>>
  /\ UNCHANGED <<parentCanceled, numStreams, curBN, removed, evicted, auxVars>>

\* a worker returns: defer cancel(), defer wg.Done()
WorkerExit(r) ==
  /\ Become(r, Idle("exit"))
  /\ childCanceled' = TRUE

\* fetch worker: the isDone check at the top of the loop
WorkerIsDone ==
  /\ pc = "fetch"
  /\ \E r \in At("isDone") :
       IF isDone(hashes, mresults)
         THEN WorkerExit(r)
         ELSE Become(r, Idle("next")) /\ UNCHANGED childCanceled
  /\ UNCHANGED <<hashes, pendings, mresults, wlArr, wlLen, gErr, blocks, dispatched>>
  /\ UNCHANGED <<cycleVars, hashVars, auxVars>>

\* fetch worker: getNextHashes; an empty whitelist is recorded in gErr, an
\* empty batch leads to the backoff, otherwise the request is issued
WorkerGetNextHashes ==
  /\ pc = "fetch"
  /\ \E r \in At("next") :
       IF wlLen = 0
         THEN /\ gErr' = ErrEmptyWhitelist
              /\ WorkerExit(r)
              /\ UNCHANGED dispatched
         ELSE LET hs == getNextHashes(hashes, pendings, mresults, wlLen) IN
              /\ IF Len(hs) = 0
                   THEN Become(r, Idle("sleep"))
                   ELSE Become(r, Worker("req", hs, SubSeq(wlArr, 1, wlLen)))
              /\ dispatched' = (dispatched \/ Len(hs) # 0)
              /\ UNCHANGED <<gErr, childCanceled>>
  /\ UNCHANGED <<hashes, pendings, mresults, wlArr, wlLen, blocks>>
  /\ UNCHANGED <<cycleVars, hashVars, auxVars>>

\* fetch worker: the 200 ms backoff elapses
WorkerSleepTimeout ==
  /\ pc = "fetch"
  /\ \E r \in At("sleep") : Become(r, Idle("isDone"))
  /\ UNCHANGED <<hashes, pendings, mresults, wlArr, wlLen, gErr,
                 childCanceled, blocks, dispatched>>
  /\ UNCHANGED <<cycleVars, hashVars, auxVars>>

\* fetch worker: the backoff is cut short by ctx.Done
WorkerSleepCanceled ==
  /\ pc = "fetch"
  /\ ctxDone
  /\ \E r \in At("sleep") : WorkerExit(r)
  /\ UNCHANGED <<hashes, pendings, mresults, wlArr, wlLen, gErr, blocks, dispatched>>
  /\ UNCHANGED <<cycleVars, hashVars, auxVars>>

\* m.handleResultError
handleResultError(hs, stid) ==
  LET r == removeStreamID(wlArr, wlLen, stid) IN
  /\ wlArr' = r.arr
  /\ wlLen' = r.len
  /\ pendings' = pendings \ Range(hs)
  /\ UNCHANGED mresults

\* fetch worker: the request fails in transport; the adapter names the stream
\* it had assigned, or none
WorkerRequestFailed ==
  /\ pc = "fetch"
  /\ \E r \in At("req") :
       /\ \E stid \in Range(r.snap) \cup {NoStream} : handleResultError(r.batch, stid)
       /\ Become(r, Idle("isDone"))
  /\ UNCHANGED <<hashes, gErr, childCanceled, blocks, dispatched>>
  /\ UNCHANGED <<cycleVars, hashVars, auxVars>>

\* fetch worker: a stream of the whitelist snapshot answers; the payload is
\* validated by checkGetBlockByHashesResult, a bad one evicts the stream
WorkerResponse ==
  /\ pc = "fetch"
  /\ \E r \in At("req") :
       /\ \E stid \in Range(r.snap), bs \in BlockResponses(r.batch) :
            IF checkGetBlockByHashesResult(bs, r.batch)
              THEN /\ mresults' = mAddResult(mresults, r.batch, bs, stid)
                   /\ pendings' = pendings \ Range(r.batch)
                   /\ UNCHANGED <<wlArr, wlLen, removed>>
              ELSE /\ removed' = removed \cup {stid}
                   /\ handleResultError(r.batch, stid)
       /\ Become(r, Idle("isDone"))
  /\ UNCHANGED <<hashes, gErr, childCanceled, blocks, dispatched>>
  /\ UNCHANGED <<pc, ret, parentCanceled, numStreams, curBN, evicted,
                 syncing, targetBN, events>>
  /\ UNCHANGED <<hashVars, auxVars>>

\* mutant: the whitelist is evicted on every failure of the fetch phase
evictOnAnyFetchError(err) == TRUE

\* doShortRangeSync: !errors.Is(err, context.Canceled)
evictOnFetchError(err) == err # ErrCanceled

\* doShortRangeSync: !errors.As(err, &emptySigVerifyError)
evictOnInsertError(err) == err # ErrSigVerify

\* sh.removeStreams(whitelist) of doShortRangeSync: the caller's slice still
\* has its full length over the shared backing array
removeStreams(arr) == evicted' = evicted \o arr

\* getBlocksByHashes after wg.Wait: a recorded worker error first, then the
\* cancellation of sh.ctx, then the outcome of getResults
fetchError(workerErr, canceled, resultErr) ==
  IF workerErr # NoErr THEN workerErr
  ELSE IF canceled THEN ErrCanceled
  ELSE resultErr

\* getBlocksByHashes after wg.Wait, and doShortRangeSync's handling of its
\* result
FetchReturn ==
  /\ pc = "fetch"
  /\ BagToSet(workers) = {Idle("exit")}
  /\ LET r == getResults(hashes, mresults)
         err == fetchError(gErr, parentCanceled, r.err)
     IN IF err # NoErr
          THEN /\ IF evictOnFetchError(err) THEN removeStreams(wlArr) ELSE UNCHANGED evicted
               /\ ret' = [n |-> 0, err |-> err]
               /\ pc' = "done"
               /\ finishSyncing
               /\ UNCHANGED blocks
          ELSE /\ blocks' = r.blocks
               /\ pc' = "insert"
               /\ UNCHANGED <<ret, evicted, syncing, events>>
  /\ UNCHANGED <<parentCanceled, numStreams, curBN, removed, targetBN>>
  /\ UNCHANGED <<hashes, pendings, mresults, wlArr, wlLen, workers,
                 gErr, childCanceled, dispatched>>
  /\ UNCHANGED <<hashVars, auxVars>>

\* verifyAndInsertBlocks and doShortRangeSync's handling of its result
Insert ==
  /\ pc = "insert"
  /\ \E n \in 0..Len(blocks), err \in {NoErr, ErrSigVerify, ErrInsertOther} :
       /\ (err = NoErr => n = Len(blocks))
       /\ (err # NoErr => n < Len(blocks))
       /\ IF err # NoErr
            THEN /\ IF evictOnInsertError(err) THEN removeStreams(wlArr) ELSE UNCHANGED evicted
                 /\ ret' = [n |-> n, err |-> err]
            ELSE /\ ret' = [n |-> Len(blocks), err |-> NoErr]
                 /\ UNCHANGED evicted
  /\ pc' = "done"
  /\ finishSyncing
  /\ UNCHANGED <<parentCanceled, numStreams, curBN, removed, targetBN>>
  /\ UNCHANGED <<hashVars, fetchVars, auxVars>>

\* Downloader.Close cancels d.ctx at any time
Cancel ==
  /\ pc # "done"
  /\ ~parentCanceled
  /\ parentCanceled' = TRUE
  /\ UNCHANGED <<pc, ret, numStreams, curBN, removed, evicted, syncing, targetBN, events>>
  /\ UNCHANGED <<hashVars, fetchVars, auxVars>>

\* --------------------------------------------- wire framing (BaseStream)
\* Bytes are 0..255. intToBytes puts uint32(val) in little-endian order; the
\* lengths of the model are far below 2^32, where the conversion to uint32 is
\* exact.
intToBytes(val) == [i \in 1..sizeBytes |-> (val \div (256 ^ (i - 1))) % 256]

RECURSIVE bytesToInt(_)
bytesToInt(b) ==
  IF b = <<>> THEN 0 ELSE Head(b) + 256 * bytesToInt(Tail(b))

ErrTooLong == "message too long"
ErrExceedMax == "message size exceed max"

PayloadBytes == {1, 2}
Payloads == UNION {[1..n -> PayloadBytes] : n \in 0..(maxMsgBytes + 1)}
\* length prefixes a remote writer may send that are above the maximum: one
\* above it, and one whose low byte is zero
OversizePrefixes == {intToBytes(maxMsgBytes + 1), intToBytes(256)}

Min(a, b) == IF a < b THEN a ELSE b
Drop(s, n) == SubSeq(s, n + 1, Len(s))
ZeroPad(s) == s \o [i \in 1..(sizeBytes - Len(s)) |-> 0]

\* WriteBytes(b): the length check, then the size bytes and the content go
\* to the stream and are flushed
WriteBytes ==
  /\ Len(frames) < MaxFrames
  /\ \E b \in Payloads :
       IF Len(b) > maxMsgBytes
         THEN /\ wres' = [n |-> wres.n + 1, b |-> b, err |-> ErrTooLong]
              /\ UNCHANGED <<wire, frames>>
         ELSE /\ wres' = [n |-> wres.n + 1, b |-> b, err |-> NoErr]
              /\ wire' = wire \o intToBytes(Len(b)) \o b
              /\ frames' = Append(frames, [kind |-> "msg", payload |-> b])
  /\ wres.n < MaxFrames
  /\ UNCHANGED <<rbuf, rd, recv>>
  /\ UNCHANGED <<cycleVars, hashVars, fetchVars, tally, rmCall>>

\* the remote end of the stream sends a length prefix above the maximum
PeerWritesOversize ==
  /\ Len(frames) < MaxFrames
  /\ \E p \in OversizePrefixes :
       /\ wire' = wire \o p
       /\ frames' = Append(frames, [kind |-> "oversize", payload |-> <<>>])
  /\ UNCHANGED <<wres, rbuf, rd, recv>>
  /\ UNCHANGED <<cycleVars, hashVars, fetchVars, tally, rmCall>>

\* ReadBytes up to the size check. st.rw.Read(sb) is one Read of the
\* bufio.Reader: it copies what the buffer holds, at most sizeBytes bytes, and
\* with an empty buffer it first takes the bytes of one Read of the stream,
\* however many the stream delivers. The bytes of sb not read stay zero.
ReadSize ==
  /\ rd.pc = "size"
  /\ \E k \in 0..Len(wire) :
       /\ IF rbuf # <<>> THEN k = 0 ELSE k >= 1
       /\ LET buf == rbuf \o SubSeq(wire, 1, k)
              n == Min(sizeBytes, Len(buf))
              size == bytesToInt(ZeroPad(SubSeq(buf, 1, n)))
          IN /\ rbuf' = Drop(buf, n)
             /\ wire' = Drop(wire, k)
             /\ IF size > maxMsgBytes
                  THEN /\ recv' = Append(recv, [err |-> ErrExceedMax, payload |-> <<>>])
                       /\ rd' = [pc |-> "failed", size |-> 0]
                  ELSE /\ recv' = recv
                       /\ rd' = [pc |-> "content", size |-> size]
  /\ UNCHANGED <<frames, wres>>
  /\ UNCHANGED <<cycleVars, hashVars, fetchVars, tally, rmCall>>

\* ReadBytes from make([]byte, size) on: io.ReadFull(st.rw, cb) reads until
\* it has size bytes; a Read of the stream it causes may leave more bytes in
\* the buffer than the content needs.
ReadContent ==
  /\ rd.pc = "content"
  /\ Len(rbuf) + Len(wire) >= rd.size
  /\ LET need == IF rd.size > Len(rbuf) THEN rd.size - Len(rbuf) ELSE 0 IN
     \E e \in 0..(Len(wire) - need) :
       /\ (need = 0 => e = 0)
       /\ LET buf == rbuf \o SubSeq(wire, 1, need + e) IN
          /\ recv' = Append(recv, [err |-> NoErr, payload |-> SubSeq(buf, 1, rd.size)])
          /\ rbuf' = Drop(buf, rd.size)
          /\ wire' = Drop(wire, need + e)
  /\ rd' = [pc |-> "size", size |-> 0]
  /\ UNCHANGED <<frames, wres>>
  /\ UNCHANGED <<cycleVars, hashVars, fetchVars, tally, rmCall>>

\* ------------------------------------------------------------ initial
CurBNs == {1}

CycleInit ==
  /\ pc = "prereq"
  /\ ret = [n |-> 0, err |-> NoErr]
  /\ parentCanceled = FALSE
  /\ numStreams \in 0..Concurrency
  /\ curBN \in CurBNs
  /\ removed = {}
  /\ evicted = <<>>
  /\ syncing = FALSE
  /\ targetBN = 0
  /\ events = <<>>

HashInit ==
  /\ hwg = Concurrency
  /\ results = newBlockHashResults
  /\ whitelist = {}
  /\ hashChain = <<>>
  /\ wlTrace = <<>>
  /\ sts = <<>>

FetchIdle ==
  /\ hashes = <<>>
  /\ pendings = {}
  /\ mresults = EmptyMap
  /\ wlArr = <<>>
  /\ wlLen = 0
  /\ workers = EmptyBag
  /\ gErr = NoErr
  /\ childCanceled = FALSE
  /\ blocks = <<>>
  /\ dispatched = FALSE

TallyIdle == tally = [m |-> EmptyMap, wl |-> {}, done |-> FALSE, hash |-> emptyHash, nextWl |-> {}]

RemoveIdle ==
  rmCall = [arr |-> <<>>, len |-> 0, target |-> NoStream, snap |-> <<>>,
            done |-> FALSE, after |-> <<>>]

FrameIdle ==
  /\ frames = <<>>
  /\ wres = [n |-> 0, b |-> <<>>, err |-> NoErr]
  /\ wire = <<>>
  /\ rbuf = <<>>
  /\ rd = [pc |-> "size", size |-> 0]
  /\ recv = <<>>

Init == CycleInit /\ HashInit /\ FetchIdle /\ TallyIdle /\ RemoveIdle /\ FrameIdle

Next ==
  \/ CheckPrerequisites
  \/ HashWorker
  \/ GetHashChainWait
  \/ ComputeStep
  \/ AfterHashChain
  \/ WorkerIsDone
  \/ WorkerGetNextHashes
  \/ WorkerSleepTimeout
  \/ WorkerSleepCanceled
  \/ WorkerRequestFailed
  \/ WorkerResponse
  \/ FetchReturn
  \/ Insert
  \/ Cancel

Spec == Init /\ [][Next]_vars

\* ---------------------------------------------- the hash-chain phase alone
NextHash ==
  \/ CheckPrerequisites
  \/ HashWorker
  \/ GetHashChainWait
  \/ ComputeStep
  \/ AfterHashChain
  \/ Cancel

SpecHash == Init /\ [][NextHash]_vars

\* --------------------------------------------- the block-fetch phase alone
\* What getHashChain can hand over: a chain of distinct hashes, or one in which
\* a hash occurs twice (peers are free to list a hash at two heights), with a
\* whitelist of distinct streams (stream ids are interchangeable, so one order
\* per size).
\* Up to numBlocksByHashesLowerCap hashes always fit one batch: lengths 1 and
\* 2 stand for these, MaxTarget for the chains that need more than one batch.
TargetLens == {1, 2, MaxTarget}
Targets ==
  {[i \in 1..n |-> i] : n \in TargetLens}
    \cup {[i \in 1..n |-> IF i = n THEN 1 ELSE i] : n \in TargetLens \ {1}}
Whitelists == {[i \in 1..k |-> i] : k \in 1..MaxWhitelist}

InitFetch ==
  /\ pc = "fetch"
  /\ ret = [n |-> 0, err |-> NoErr]
  /\ parentCanceled = FALSE
  /\ numStreams = Concurrency
  /\ curBN \in CurBNs
  /\ removed = {}
  /\ evicted = <<>>
  /\ syncing = TRUE
  /\ events = <<"started">>
  /\ hwg = 0
  /\ results = newBlockHashResults
  /\ whitelist = {}
  /\ wlTrace = <<>>
  /\ hashChain \in Targets
  /\ sts \in Whitelists
  /\ targetBN = curBN + Len(hashChain) - 1
  /\ hashes = hashChain
  /\ pendings = {}
  /\ mresults = EmptyMap
  /\ wlArr = sts
  /\ wlLen = Len(sts)
  /\ workers = (Idle("isDone") :> Concurrency)
  /\ gErr = NoErr
  /\ childCanceled = FALSE
  /\ blocks = <<>>
  /\ dispatched = FALSE
  /\ TallyIdle
  /\ RemoveIdle
  /\ FrameIdle

NextFetch ==
  \/ WorkerIsDone
  \/ WorkerGetNextHashes
  \/ WorkerSleepTimeout
  \/ WorkerSleepCanceled
  \/ WorkerRequestFailed
  \/ WorkerResponse
  \/ FetchReturn
  \/ Insert
  \/ Cancel

SpecFetch == InitFetch /\ [][NextFetch]_vars

\* The same scheduler, with every request returning but none obliged to
\* succeed: after a cancellation the requests of the adapter fail.
FairSpecCancel ==
  /\ SpecFetch
  /\ WF_vars(WorkerIsDone)
  /\ WF_vars(WorkerGetNextHashes)
  /\ WF_vars(WorkerSleepTimeout)
  /\ SF_vars(WorkerSleepCanceled)
  /\ WF_vars(WorkerRequestFailed \/ WorkerResponse)
  /\ WF_vars(FetchReturn)
  /\ WF_vars(Insert)

\* ------------------------------------ the fetch manager driven by one worker
\* The manager's operations in sequence, for every target length of a window
\* and every whitelist size: getNextHashes, then addResult or
\* handleResultError, until the manager is done or its whitelist is empty.
InitManager ==
  /\ pc = "fetch"
  /\ ret = [n |-> 0, err |-> NoErr]
  /\ parentCanceled = FALSE
  /\ numStreams = Concurrency
  /\ curBN \in CurBNs
  /\ removed = {}
  /\ evicted = <<>>
  /\ syncing = TRUE
  /\ events = <<"started">>
  /\ hwg = 0
  /\ results = newBlockHashResults
  /\ whitelist = {}
  /\ wlTrace = <<>>
  /\ hashChain \in {[i \in 1..n |-> i] : n \in 1..MaxChainLen}
  /\ sts \in {[i \in 1..k |-> i] : k \in 1..MaxManagerWhitelist}
  /\ targetBN = curBN + Len(hashChain) - 1
  /\ hashes = hashChain
  /\ pendings = {}
  /\ mresults = EmptyMap
  /\ wlArr = sts
  /\ wlLen = Len(sts)
  /\ workers = (Idle("isDone") :> 1)
  /\ gErr = NoErr
  /\ childCanceled = FALSE
  /\ blocks = <<>>
  /\ dispatched = FALSE
  /\ TallyIdle
  /\ RemoveIdle
  /\ FrameIdle

NextManager ==
  \/ WorkerIsDone
  \/ WorkerGetNextHashes
  \/ WorkerRequestFailed
  \/ WorkerResponse
  \/ FetchReturn
  \/ Insert

SpecManager == InitManager /\ [][NextManager]_vars

\* The scheduler runs every goroutine that can take a step, every request
\* returns, and a peer that is asked again and again eventually delivers;
\* Downloader.Close is under no obligation.
FairSpecFetch ==
  /\ SpecFetch
  /\ WF_vars(WorkerIsDone)
  /\ WF_vars(WorkerGetNextHashes)
  /\ WF_vars(WorkerSleepTimeout)
  /\ SF_vars(WorkerSleepCanceled)
  /\ WF_vars(WorkerRequestFailed \/ WorkerResponse)
  /\ SF_vars(WorkerResponse /\ mresults' # mresults)
  /\ WF_vars(FetchReturn)
  /\ WF_vars(Insert)

\* --------------------------------- one stream, its writers and its reader
\* no short-range cycle is running
CycleParked ==
  /\ pc = "prereq"
  /\ ret = [n |-> 0, err |-> NoErr]
  /\ parentCanceled = FALSE
  /\ numStreams = 0
  /\ curBN \in CurBNs
  /\ removed = {}
  /\ evicted = <<>>
  /\ syncing = FALSE
  /\ targetBN = 0
  /\ events = <<>>

InitFrame == CycleParked /\ HashInit /\ FetchIdle /\ TallyIdle /\ RemoveIdle /\ FrameIdle

NextFrame ==
  \/ WriteBytes
  \/ PeerWritesOversize
  \/ ReadSize
  \/ ReadContent

SpecFrame == InitFrame /\ [][NextFrame]_vars

\* ------------------------------------- removeStreamID on drawn inputs
\* A manager whitelist of any content, duplicates included, of which
\* getNextHashes has handed out a snapshot; handleResultError removes a
\* stream, and getNextHashes hands out another snapshot.
RemoveInputs == UNION {[1..n -> StreamIDs] : n \in 0..MaxRemoveLen}

\* getNextHashes: sts := make(...); copy(sts, m.whitelist)
snapshot(arr, len) == SubSeq(arr, 1, len)

InitRemove ==
  /\ CycleParked
  /\ HashInit
  /\ FetchIdle
  /\ TallyIdle
  /\ FrameIdle
  /\ \E a \in RemoveInputs, t \in StreamIDs \cup {NoStream} :
       rmCall = [arr |-> a, len |-> Len(a), target |-> t, snap |-> snapshot(a, Len(a)),
                 done |-> FALSE, after |-> <<>>]

\* handleResultError(batch, target) on the manager whitelist
RemoveApply ==
  /\ ~rmCall.done
  /\ LET r == removeStreamID(rmCall.arr, rmCall.len, rmCall.target) IN
       rmCall' = [rmCall EXCEPT !.arr = r.arr, !.len = r.len, !.done = TRUE]
  /\ UNCHANGED <<cycleVars, hashVars, fetchVars, tally, frameVars>>

\* a getNextHashes call made afterwards, with a non-empty whitelist
RemoveSnapshotAfter ==
  /\ rmCall.done
  /\ rmCall.len >= 1
  /\ rmCall.after = <<>>
  /\ rmCall' = [rmCall EXCEPT !.after = snapshot(rmCall.arr, rmCall.len)]
  /\ UNCHANGED <<cycleVars, hashVars, fetchVars, tally, frameVars>>

NextRemove ==
  \/ RemoveApply
  \/ RemoveSnapshotAfter

SpecRemove == InitRemove /\ [][NextRemove]_vars

\* ------------------------------------ countHashMaxVote on drawn inputs
TallyHashValues == {1, 2, 3}
VoteTables == UNION {[D -> TallyHashValues] : D \in SUBSET StreamIDs}

InitTally ==
  /\ pc = "prereq"
  /\ ret = [n |-> 0, err |-> NoErr]
  /\ parentCanceled = FALSE
  /\ numStreams = 0
  /\ curBN \in CurBNs
  /\ removed = {}
  /\ evicted = <<>>
  /\ syncing = FALSE
  /\ targetBN = 0
  /\ events = <<>>
  /\ HashInit
  /\ FetchIdle
  /\ RemoveIdle
  /\ FrameIdle
  /\ \E m \in VoteTables, wl \in SUBSET StreamIDs :
       tally = [m |-> m, wl |-> wl, done |-> FALSE, hash |-> emptyHash, nextWl |-> {}]

\* countHashMaxVote(m, whitelist), the map iterated in any order
TallyApply ==
  /\ ~tally.done
  /\ \E order \in Perms(DOMAIN tally.m) :
       LET r == countHashMaxVote(tally.m, tally.wl, order) IN
         tally' = [tally EXCEPT !.done = TRUE, !.hash = r.hash, !.nextWl = r.nextWl]
  /\ UNCHANGED <<cycleVars, hashVars, fetchVars, rmCall, frameVars>>

NextTally == TallyApply

SpecTally == InitTally /\ [][NextTally]_vars

\* ========================================================== properties

\* the fetch workers with a request in flight, as pairs of distinct workers
InFlight == At("req")
TwoInFlight(r1, r2) ==
  /\ r1 \in InFlight /\ r2 \in InFlight
  /\ (r1 # r2 \/ CopiesIn(r1, workers) >= 2)

\* C1: no duplicate dispatch in the block-fetch phase. A hash handed out by
\* one getNextHashes call is not handed out by another until addResult or
\* handleResultError has been applied to it: no hash is in flight in two
\* requests at the same time.
C1_NoDuplicateDispatch ==
  \A r1, r2 \in InFlight :
    TwoInFlight(r1, r2) => Range(r1.batch) \cap Range(r2.batch) = {}

\* C2: every stream of the whitelist returned by computeLongestHashChain has a
\* recorded vote at every position of the returned chain, and that vote is the
\* chain's hash at the position.
C2_WhitelistVotedChain ==
  pc = "computed" =>
    \A s \in Range(sts), i \in 1..Len(hashChain) :
      s \in DOMAIN results[i] /\ results[i][s] = hashChain[i]

\* C2 witness: a chain of two hashes is returned with a whitelist that leaves
\* out a stream that voted at the first position.
C2_Witness ==
  /\ pc = "computed"
  /\ Len(hashChain) >= 2
  /\ sts # <<>>
  /\ DOMAIN results[1] \ Range(sts) # {}

\* C3: the running whitelist after each appended position is non-empty and,
\* from the second position on, a subset of the one before; one whitelist is
\* recorded per appended hash, and the returned whitelist is the last of them,
\* so it is non-empty whenever the chain is.
C3_WhitelistShrinks ==
  pc \in {"compute", "computed"} =>
    /\ Len(wlTrace) = Len(hashChain)
    /\ \A i \in 1..Len(wlTrace) :
         /\ wlTrace[i] # {}
         /\ i > 1 => wlTrace[i] \subseteq wlTrace[i - 1]
    /\ (hashChain # <<>> => whitelist = wlTrace[Len(wlTrace)])
    /\ (pc = "computed" /\ hashChain # <<>> =>
          sts # <<>> /\ Range(sts) = wlTrace[Len(wlTrace)])

\* C3 witness: the whitelist strictly shrinks between two appended positions.
C3_Witness ==
  /\ pc = "computed"
  /\ Len(wlTrace) >= 2
  /\ wlTrace[2] # wlTrace[1]

\* the votes Tally counts: the table restricted to a non-empty prior whitelist
TallyR == IF tally.wl # {} THEN DOMAIN tally.m \cap tally.wl ELSE DOMAIN tally.m
TallyCount(h) == Cardinality({s \in TallyR : tally.m[s] = h})

\* C4: countHashMaxVote agrees with its reference definition. The winner is a
\* hash voted in R whose count in R is at least that of every other hash,
\* nextWhitelist is exactly the streams of R that voted for it, and with R
\* empty the winner is emptyHash and nextWhitelist is empty.
C4_TallyReference ==
  tally.done =>
    IF TallyR = {}
      THEN tally.hash = emptyHash /\ tally.nextWl = {}
      ELSE /\ \E s \in TallyR : tally.m[s] = tally.hash
           /\ \A h \in TallyHashValues : TallyCount(tally.hash) >= TallyCount(h)
           /\ tally.nextWl = {s \in TallyR : tally.m[s] = tally.hash}

\* C4 witness: a tally under a prior whitelist that excludes a stream which
\* voted for the winner, with a losing hash among the counted votes.
C4_Witness ==
  /\ tally.done
  /\ tally.wl # {}
  /\ \E s \in DOMAIN tally.m \ tally.wl : tally.m[s] = tally.hash
  /\ \E h \in TallyHashValues : h # tally.hash /\ TallyCount(h) >= 1

\* the streams whose vote counts at position i of the chain computation
Voters(i) ==
  {s \in DOMAIN results[i] : i = 1 \/ s \in wlTrace[i - 1]}

\* C5: the returned chain is the longest agreed prefix. Recorded votes of a
\* stream never hold emptyHash and stop at the first position it has none
\* (a listing counts only before its first emptyHash); the chain has a hash at
\* every position up to the first one where no member of the running whitelist
\* (any responder at the first position) has a vote, and none from there on.
C5_LongestAgreedPrefix ==
  /\ \A i \in Positions : \A s \in DOMAIN results[i] :
       /\ results[i][s] # emptyHash
       /\ \A j \in 1..(i - 1) : s \in DOMAIN results[j]
  /\ pc = "computed" =>
       /\ Len(hashChain) <= numBlockHashesPerRequest
       /\ \A i \in 1..Len(hashChain) : Voters(i) # {}
       /\ (Len(hashChain) < numBlockHashesPerRequest => Voters(Len(hashChain) + 1) = {})

\* C5 witness: the chain stops before the end of the window although a stream
\* outside the running whitelist has a vote at the stopping position.
C5_Witness ==
  /\ pc = "computed"
  /\ hashChain # <<>>
  /\ Len(hashChain) < numBlockHashesPerRequest
  /\ results[Len(hashChain) + 1] # EmptyMap

\* C6: when the block-fetch phase fails for a reason other than cancellation,
\* RemoveStream is called by doShortRangeSync for every stream of the whitelist
\* that getHashChain returned, also for those that handleResultError took out
\* of the manager's whitelist.
C6_FetchFailureEvictsWhitelist ==
  (pc = "done" /\ ret.err \in {ErrEmptyWhitelist, ErrSanityNil}) =>
    Range(sts) \subseteq Range(evicted)

C8_InsertFailureAttribution ==
  pc = "done" =>
    /\ (ret.err = ErrSigVerify => evicted = <<>> /\ ret.n < Len(blocks))
    /\ (ret.err = ErrInsertOther =>
          Range(sts) \subseteq Range(evicted) /\ ret.n < Len(blocks))
    /\ (ret.err = NoErr => evicted = <<>> /\ ret.n = Len(hashes))

\* C9: the block-fetch phase terminates. Under fair scheduling, with every
\* request returning, getBlocksByHashes eventually returns.
C9_FetchPhaseTerminates == <>(pc # "fetch")

\* the blocks of a list carry the target hashes, position by position
Aligned(bs) ==
  /\ Len(bs) = Len(hashes)
  /\ \A i \in DOMAIN bs : ~bs[i].nil /\ bs[i].hash = hashes[i]

\* C10: when the block-fetch phase succeeds the blocks handed to insertion are
\* exactly the target's, in target order; and getResults, whenever it is
\* evaluated, gives the aligned list if every target hash has a non-nil record
\* and the sanity error with no block otherwise.
C10_ResultsInTargetOrder ==
  /\ (pc = "insert" => Aligned(blocks))
  /\ pc \in {"fetch", "insert"} =>
       LET r == getResults(hashes, mresults) IN
         IF \E i \in DOMAIN hashes :
              hashes[i] \notin DOMAIN mresults \/ mresults[hashes[i]].block.nil
           THEN r.err = ErrSanityNil /\ r.blocks = <<>>
           ELSE r.err = NoErr /\ Aligned(r.blocks)

\* C10 witness: a target of more than one batch was fetched from two streams
\* and is handed to insertion.
C10_Witness ==
  /\ pc = "insert"
  /\ Len(hashes) > numBlocksByHashesLowerCap
  /\ \E h1, h2 \in DOMAIN mresults : mresults[h1].stid # mresults[h2].stid

\* C11: in every state of the fetch manager pendings and the keys of results
\* are disjoint, and both hold hashes of the target only.
C11_PendingResultsDisjoint ==
  /\ pendings \cap DOMAIN mresults = {}
  /\ pendings \cup DOMAIN mresults \subseteq Range(hashes)

\* C11 witness: the manager has accepted a result and rejected a batch, and a
\* request is in flight.
C11_Witness ==
  /\ pc = "fetch"
  /\ mresults # EmptyMap
  /\ wlLen < Len(sts)
  /\ At("req") # {}

\* the step in which worker r gets the outcome of its request
LeavesReq(r) == CopiesIn(r, workers') = CopiesIn(r, workers) - 1

\* C12: wrong-block handling. Every record of results holds a non-nil block
\* whose hash is its key; and the step in which a response fails validation
\* (the stream is handed to RemoveStream) records nothing, takes the stream out
\* of the manager whitelist and leaves no hash of the batch pending.
C12_WrongBlockRejected ==
  /\ [](\A h \in DOMAIN mresults :
          ~mresults[h].block.nil /\ mresults[h].block.hash = h)
  /\ [][\A r \in At("req") :
          (pc = "fetch" /\ LeavesReq(r) /\ removed' # removed) =>
            /\ mresults' = mresults
            /\ removed' \ removed \subseteq Range(r.snap)
            /\ (removed' \ removed) \cap Range(SubSeq(wlArr', 1, wlLen')) = {}
            /\ Range(r.batch) \cap pendings' = {}]_vars

\* C12 witness: a stream was evicted for a bad payload and the phase still
\* fetched every block from the rest of the whitelist.
C12_Witness ==
  /\ pc = "insert"
  /\ removed # {}
  /\ wlLen >= 1

\* the streams with a recorded vote at some position
AllVoters == UNION {DOMAIN results[i] : i \in Positions}

\* C13: a hash listing of the wrong length is rejected. The step that hands its
\* stream to RemoveStream records no vote and ends the worker; each finished
\* worker has contributed either votes of one stream or one eviction, so the
\* chain is computed from the listings of the other workers only.
C13_WrongLengthListingRejected ==
  /\ [](pc \in {"hashWorkers", "compute", "computed"} =>
          Cardinality(AllVoters) + Cardinality(removed) <= Concurrency - hwg)
  /\ [][(pc = "hashWorkers" /\ removed' # removed) =>
          (results' = results /\ hwg' = hwg - 1 /\ evicted' = evicted)]_vars

\* C13 witness: one worker got a listing of the wrong length, its stream was
\* evicted, and a chain was resolved from the listing of the other worker.
C13_Witness ==
  /\ pc = "computed"
  /\ removed # {}
  /\ hashChain # <<>>
  /\ removed \cap AllVoters = {}

\* ceil(n / w) clamped to the caps, by its defining property
BatchSize(n, w) ==
  LET c == CHOOSE k \in 1..n : k * w >= n /\ (k - 1) * w < n IN
    IF c < 6 THEN 6 ELSE IF c > 10 THEN 10 ELSE c

\* C14: dynamic batch size. With n target hashes and a non-empty manager
\* whitelist of w streams numBlocksPerRequest is clamp(ceil(n / w), 6, 10);
\* a batch handed out with a whitelist of w streams has at most that many
\* hashes; and the batch size does not decrease when the whitelist shrinks.
C14_DynamicBatchSize ==
  /\ [](pc = "fetch" =>
          /\ wlLen >= 1 =>
               numBlocksPerRequest(Len(hashes), wlLen) = BatchSize(Len(hashes), wlLen)
          /\ \A r \in At("req") :
               Len(r.batch) <= BatchSize(Len(hashes), Len(r.snap)))
  /\ [][(pc = "fetch" /\ wlLen' < wlLen /\ wlLen' >= 1) =>
          numBlocksPerRequest(Len(hashes), wlLen') >=
            numBlocksPerRequest(Len(hashes), wlLen)]_vars

\* C14 witness: after the whitelist has shrunk a batch of a size strictly
\* between the caps is handed out in full.
C14_Witness ==
  /\ pc = "fetch"
  /\ wlLen < Len(sts)
  /\ \E r \in At("req") :
       /\ Len(r.batch) > 6 /\ Len(r.batch) < 10
       /\ Len(r.batch) = numBlocksPerRequest(Len(hashes), wlLen)
       /\ numBlocksPerRequest(Len(hashes), Len(sts)) < Len(r.batch)

\* nothing of the block-fetch phase, of insertion or of the sync status has
\* happened
NothingFetched ==
  /\ ~dispatched
  /\ workers = EmptyBag
  /\ mresults = EmptyMap
  /\ blocks = <<>>
  /\ evicted = <<>>
  /\ ~syncing
  /\ events = <<>>
  /\ targetBN = 0

\* C15: prerequisite check. With fewer streams than Concurrency the cycle ends
\* at the check with (0, NOT_ENOUGH_STREAMS): no hash worker has run, no
\* request of either kind was issued, no stream was evicted and sync was not
\* marked in progress.
C15_PrerequisiteCheck ==
  numStreams < Concurrency =>
    /\ pc \in {"prereq", "done"}
    /\ (pc = "done" => ret = [n |-> 0, err |-> ErrPrerequisite])
    /\ hwg = Concurrency
    /\ results = newBlockHashResults
    /\ removed = {}
    /\ NothingFetched

\* C15 witness: a cycle started with one stream short has returned.
C15_Witness ==
  /\ numStreams = Concurrency - 1
  /\ pc = "done"
  /\ ret.err = ErrPrerequisite

\* C16: no-op cycle. With an empty hash chain the cycle never enters the
\* block-fetch phase: leaving computeLongestHashChain it returns (0, nil), and
\* no block request, insertion, eviction by the orchestrator or sync status
\* change has happened.
C16_NoOpCycle ==
  /\ [](hashChain = <<>> => pc \notin {"fetch", "insert"} /\ NothingFetched)
  /\ [][(pc = "computed" /\ hashChain = <<>> /\ pc' # pc) =>
          (pc' = "done" /\ ret' = [n |-> 0, err |-> NoErr])]_vars

\* C16 witness: the hash workers have run, one of them evicting a stream for a
\* listing of the wrong length, no chain was resolved and the cycle returned
\* (0, nil).
C16_Witness ==
  /\ pc = "done"
  /\ hwg = 0
  /\ removed # {}
  /\ hashChain = <<>>
  /\ ret = [n |-> 0, err |-> NoErr]
  /\ ~parentCanceled

\* the 4-byte little-endian length prefix of a payload of n bytes
LittleEndian4(n) ==
  <<n % 256, (n \div 256) % 256, (n \div 65536) % 256, (n \div 16777216) % 256>>

\* C17: wire framing round trip. Each accepted WriteBytes puts the 4-byte
\* little-endian length and then the payload on the stream, and however the
\* stream splits its bytes into deliveries the ReadBytes calls return the
\* written payloads, in order and without error.
C17_FramingRoundTrip ==
  /\ [](\/ \E i \in DOMAIN frames : frames[i].kind = "oversize"
        \/ /\ Len(recv) <= Len(frames)
           /\ \A i \in DOMAIN recv :
                recv[i] = [err |-> NoErr, payload |-> frames[i].payload])
  /\ [][(wres'.n # wres.n /\ wres'.err = NoErr) =>
          wire' = wire \o LittleEndian4(Len(wres'.b)) \o wres'.b]_vars

\* C18: oversize rejection on both paths. WriteBytes of a payload longer than
\* the maximum returns an error and writes nothing, one of at most the maximum
\* is written; ReadBytes of a frame whose length prefix exceeds the maximum
\* returns the size error and no payload, and a frame of exactly the maximum
\* is returned.
C18_OversizeRejected ==
  /\ [][wres'.n # wres.n =>
          IF Len(wres'.b) > maxMsgBytes
            THEN wres'.err = ErrTooLong /\ wire' = wire /\ frames' = frames
            ELSE wres'.err = NoErr /\ Len(wire') = Len(wire) + sizeBytes + Len(wres'.b)]_vars
  /\ [](\A i \in DOMAIN recv : i <= Len(frames) =>
          /\ (frames[i].kind = "oversize" /\ \A j \in 1..(i - 1) : recv[j].err = NoErr) =>
               recv[i] = [err |-> ErrExceedMax, payload |-> <<>>]
          /\ (frames[i].kind = "msg" /\ Len(frames[i].payload) = maxMsgBytes
                /\ \A j \in 1..i : frames[j].kind = "msg") =>
               recv[i] = [err |-> NoErr, payload |-> frames[i].payload])

\* C19: cancellation liveness in the block-fetch phase. Once the parent
\* context is canceled every fetch worker eventually exits and
\* getBlocksByHashes returns.
C19_CancelStopsWorkers == (parentCanceled /\ pc = "fetch") ~> (pc # "fetch")

\* C20: handleResultError removes every occurrence of the stream from the
\* manager whitelist and keeps the other members in their order; a snapshot
\* handed out afterwards does not contain the stream, and the snapshot handed
\* out before is not altered.
C20_RemoveStreamID ==
  /\ [](rmCall.done =>
          /\ snapshot(rmCall.arr, rmCall.len) =
               SelectSeq(rmCall.snap, LAMBDA s : s # rmCall.target)
          /\ (rmCall.after # <<>> =>
                /\ rmCall.target \notin Range(rmCall.after)
                /\ rmCall.after = snapshot(rmCall.arr, rmCall.len)))
  /\ [][rmCall'.snap = rmCall.snap]_vars

\* C20 witness: the stream occurred twice in a whitelist of three, was
\* removed, and a later snapshot holds the remaining member.
C20_Witness ==
  /\ rmCall.done
  /\ Len(rmCall.snap) = MaxRemoveLen
  /\ Cardinality({i \in DOMAIN rmCall.snap : rmCall.snap[i] = rmCall.target}) = 2
  /\ rmCall.after # <<>>

\* every hash of the target has a record in the manager's results
Covered == Range(hashes) \subseteq DOMAIN mresults

\* C21: completion predicate. For every target the hash-chain phase can hand
\* over, a target with a repeated hash included, isDone() is true exactly
\* when every hash of the target has a record in results.
C21_IsDoneIffCovered ==
  pc = "fetch" => (isDone(hashes, mresults) <=> Covered)

\* C22: sync status bracketing. While a cycle with a non-empty hash chain is
\* in its block-fetch or insert phase, sync is in progress with target height
\* curBN + len(chain) - 1 and the one event sent so far is download-started,
\* so both precede the first block request. Once such a cycle has returned,
\* on whatever path, in-progress is cleared and exactly one download-finished
\* event has followed the download-started event; a cycle that never reached
\* the block-fetch phase sent no event and never was in progress.
C22_SyncStatusBracketing ==
  /\ (syncing <=> pc \in {"fetch", "insert"})
  /\ (pc \in {"fetch", "insert"} =>
        /\ hashChain # <<>>
        /\ targetBN = curBN + Len(hashChain) - 1
        /\ events = <<"started">>)
  /\ (dispatched => events # <<>> /\ events[1] = "started")
  /\ (pc = "done" =>
        events = IF hashes # <<>> THEN <<"started", "finished">> ELSE <<>>)
  /\ (pc \notin {"fetch", "insert", "done"} => events = <<>>)

\* C22 witness: a cycle with a chain of two hashes announced the height
\* curBN + 1, issued a block request and returned with an insert failure; the
\* status is cleared and the two events are out.
C22_Witness ==
  /\ pc = "done"
  /\ Len(hashChain) = numBlockHashesPerRequest
  /\ targetBN = curBN + numBlockHashesPerRequest - 1
  /\ dispatched
  /\ ret.err = ErrInsertOther
  /\ ~syncing
  /\ events = <<"started", "finished">>

====
